---------------------------- MODULE Spec2Model ----------------------------
(***************************************************************************)
(* ResumeSense, backend/api/routes.py: the four HTTP handlers              *)
(* (analyze_resume, get_history, get_resume, get_analysis) over the        *)
(* three-table store (Resume, Job, AnalysisResult).                        *)
(*                                                                         *)
(* Text is a sequence of one-character strings.  Python's None is a        *)
(* separate value of each type (NoText, NoId, NoScore, NoDetails).         *)
(* analyze_resume is not atomic: a worker runs it in steps, and the        *)
(* steps of two workers interleave at every database commit.  The steps    *)
(* that touch no table (reading the request, the collaborator calls,       *)
(* handing over a response) commute with every step of the other worker,   *)
(* so they run without a step of the other worker in between (Quiet):      *)
(* every order of the commits of two requests is still a behaviour.        *)
(***************************************************************************)
EXTENDS Integers, Sequences, FiniteSets

\* ------------------------------------------------------------------ bounds
\* Rows the Resume table may hold: an analyze request is accepted while the
\* rows stored and the requests in flight stay below it.  Requests that
\* fail before their first insert are not bounded.
MaxResumes == 2
\* Largest limit a history request asks for.
MaxLimit == 2

\* The worker threads that serve requests concurrently.
Workers == {"w1", "w2"}

\* ------------------------------------------------------------- None values
NoText == <<"<None>">>
NoId == 0
NoScore == -1
NoDetails == [none |-> TRUE]
NoFile == <<"<no resume_file>">>

\* Python truthiness of an Optional[str]: None and "" are falsy.
Truthy(s) == s # NoText /\ s # <<>>

\* --------------------------------------------------------------- constants
\* The preview length of get_history.
PREVIEW_LEN == 200
Ellipsis == <<".", ".", ".">>

\* Config.ALLOWED_EXTENSIONS (backend/config.py, not among the sources).
ALLOWED_EXTENSIONS == {<<"p", "d", "f">>}

\* --------------------------------------------------------- input alphabet
Rep(c, n) == [i \in 1..n |-> c]

\* Filenames of the uploaded part; <<>> is an upload field left empty.
Filenames ==
    { <<>>,
      <<"c", "v", ".", "P", "D", "F">>,
      <<"p", "d", "f">>,
      <<"c", ".", "p", "d", "f", ".", "x">> }

\* What PDFParser.extract_text_from_bytes returns when it returns.
ExtractorOutputs == {NoText, <<>>, Rep("x", PREVIEW_LEN)}

\* The resume_text form field (NoText: the field is absent).
ResumeFields == {NoText, <<>>, Rep("r", PREVIEW_LEN + 1)}

\* The job_description form field (NoText: the field is absent).
JobFields == {NoText, <<>>, Rep("j", PREVIEW_LEN), Rep("j", PREVIEW_LEN + 1)}

\* The match_score JDMatcher.compute_match_score returns: a number, here 0,
\* which is not None.
MatchScores == {0}

\* ------------------------------------------------------------ allowed_file
LowerChar(c) ==
    CASE c = "P" -> "p"
      [] c = "D" -> "d"
      [] c = "F" -> "f"
      [] OTHER -> c

\* str.lower()
Lower(s) == [i \in 1..Len(s) |-> LowerChar(s[i])]

\* '.' in filename
HasDot(f) == \E i \in 1..Len(f) : f[i] = "."

\* filename.rsplit('.', 1)[1]: what follows the last '.'
RSplitLast(f) ==
    LET d == CHOOSE i \in 1..Len(f) :
                 f[i] = "." /\ \A j \in (i + 1)..Len(f) : f[j] # "."
    IN  SubSeq(f, d + 1, Len(f))

\* Mutant: the extension is compared as typed.
allowed_file_CaseSensitive(filename) ==
    HasDot(filename) /\ RSplitLast(filename) \in ALLOWED_EXTENSIONS

allowed_file(filename) ==
    HasDot(filename) /\ Lower(RSplitLast(filename)) \in ALLOWED_EXTENSIONS

\* ------------------------------------------------------------------- state
VARIABLES
    resumes,    \* table Resume: sequence of rows, row i has id i
    jobs,       \* table Job
    analyses,   \* table AnalysisResult
    now,        \* the storage layer's clock
    wk,         \* per worker: the locals of its analyze_resume call, the
                \* form field job_description as sent, and the history
                \* of the call (calls: the collaborators invoked, wrote:
                \* the rows committed)
    reply       \* the response of the read handler that ran last

vars == <<resumes, jobs, analyses, now, wk, reply>>

\* The extractor was not invoked / raised instead of returning.
NotCalled == <<"<not called>">>
Raised == <<"<raised>">>

\* The request as lines 45-53 read it: the filename of the resume_file part,
\* what the extractor did with its bytes, the resume_text form field.
NoRequest == [file |-> NoFile, extracted |-> NotCalled, resume_text |-> NoText]
NoResponse == [status |-> 0]
NoReply == [op |-> "none"]

IdleLocals ==
    [ pc |-> "idle", request |-> NoRequest,
      resume_text |-> NoText, job_description |-> NoText, jd_text |-> <<>>,
      match_score |-> NoScore, match_details |-> NoDetails,
      calls |-> <<>>,
      new_resume |-> NoId, new_job |-> NoId, new_analysis |-> NoId,
      wrote |-> <<>>,
      response |-> NoResponse ]

Init ==
    /\ resumes = <<>>
    /\ jobs = <<>>
    /\ analyses = <<>>
    /\ now = 0
    /\ wk = [k \in Workers |-> IdleLocals]
    /\ reply = NoReply


\* ------------------------------------------------------------ storage layer
\* Surrogate key of the next row of a table.
NewId(table) == Len(table) + 1

\* created_at of a row inserted now.
Stamp == now

ResumeById(id) == IF id \in 1..Len(resumes) THEN resumes[id] ELSE [id |-> NoId]
JobById(id) == IF id \in 1..Len(jobs) THEN jobs[id] ELSE [id |-> NoId]
AnalysisById(id) == IF id \in 1..Len(analyses) THEN analyses[id] ELSE [id |-> NoId]

\* No worker is between two local steps and no read response is undelivered.
Quiet ==
    /\ reply = NoReply
    /\ \A k \in Workers : wk[k].pc \notin {"analyses", "done"}

\* ------------------------------------------------------------ analyze_resume
ErrorResponse(code, msg) == [status |-> code, error |-> msg]

\* return jsonify(...), code: the call is over and the worker holds its response.
Return(k, locals, resp) ==
    wk' = [wk EXCEPT ![k] = [locals EXCEPT !.pc = "done", !.response = resp]]

\* Mutant: the handler answers 500 with a fixed message.
Except_Opaque(k, locals, e) ==
    Return(k, locals, ErrorResponse(500, "Internal Server Error"))

\* Lines 132-134: the handler of every exception answers 500 with str(e)
\* and undoes nothing.
Except(k, locals, e) == Return(k, locals, ErrorResponse(500, e))

\* `file and allowed_file(file.filename)`: a FileStorage is truthy when it
\* has a filename.
UsesFile(file) == file # NoFile /\ file # <<>> /\ allowed_file(file)

\* Mutant: line 55-56, the check of the text the form field gave, is missing.
ResolveResumeText_Unchecked(file, out, field) ==
    IF UsesFile(file) /\ out = Raised
    THEN [status |-> 500, error |-> "extract_text_from_bytes", text |-> NoText]
    ELSE IF UsesFile(file) /\ ~Truthy(out)
    THEN [status |-> 400, error |-> "Could not read PDF text", text |-> out]
    ELSE LET fromFile == IF UsesFile(file) THEN out ELSE NoText
             text == IF ~Truthy(fromFile) THEN field ELSE fromFile
         IN  [status |-> 0, error |-> "", text |-> text]

\* Lines 43-56: the resume text of a request, or the response that ends it.
ResolveResumeText(file, out, field) ==
    IF UsesFile(file) /\ out = Raised
    THEN [status |-> 500, error |-> "extract_text_from_bytes", text |-> NoText]
    ELSE IF UsesFile(file) /\ ~Truthy(out)
    THEN [status |-> 400, error |-> "Could not read PDF text", text |-> out]
    ELSE LET fromFile == IF UsesFile(file) THEN out ELSE NoText
             text == IF ~Truthy(fromFile) THEN field ELSE fromFile
         IN  IF ~Truthy(text)
             THEN [status |-> 400, error |-> "No resume provided", text |-> text]
             ELSE [status |-> 0, error |-> "", text |-> text]

\* Requests a worker is serving.
InFlight == Cardinality({k \in Workers : wk[k].pc # "idle"})

\* A request goes to the first idle worker of the pool.
FirstIdle ==
    IF wk["w1"].pc = "idle" THEN "w1" ELSE "w2"

\* Lines 36-56: a worker takes the next request and resolves its resume text.
AnalyzeBegin(k) ==
    /\ Quiet
    /\ wk[k].pc = "idle"
    /\ k = FirstIdle
    /\ Len(resumes) + InFlight < MaxResumes
    /\ \E file \in Filenames \cup {NoFile}, field \in ResumeFields :
       \E out \in (IF UsesFile(file) THEN ExtractorOutputs \cup {Raised}
                                      ELSE {NotCalled}) :
          LET r == ResolveResumeText(file, out, field)
              locals == [IdleLocals EXCEPT
                            !.request = [file |-> file, extracted |-> out,
                                         resume_text |-> field],
                            !.resume_text = r.text]
          IN  IF r.status = 500
              THEN Except(k, locals, r.error)
              ELSE IF r.status = 400
              THEN Return(k, locals, ErrorResponse(400, r.error))
              ELSE wk' = [wk EXCEPT ![k] = [locals EXCEPT !.pc = "analyses"]]
    /\ UNCHANGED <<resumes, jobs, analyses, now, reply>>

\* request.form.get("job_description", "")
JobDescription(field) == IF field = NoText THEN <<>> ELSE field

\* Mutant: the match is computed whether or not a job description came.
Matching_Always(jd_text) == TRUE

\* Line 66, `if jd_text:`: the match is computed.
Matching(jd_text) == Truthy(jd_text)

\* Line 104, `if jd_text:`: a Job row is inserted.
HasJob(jd_text) == Truthy(jd_text)

\* Mutant: the insight extraction is not among the calls made before the
\* inserts.
Collaborators_InsightsLate(jd_text) ==
    (IF Matching(jd_text) THEN <<"compute_match_score">> ELSE <<>>)
    \o <<"check_compliance", "find_weak_verbs", "get_power_verb_stats",
         "score_resume">>

\* Lines 63-91: the collaborators analyze_resume calls, in call order.
Collaborators(jd_text) ==
    (IF Matching(jd_text) THEN <<"compute_match_score">> ELSE <<>>)
    \o <<"check_compliance", "find_weak_verbs", "get_power_verb_stats",
         "score_resume", "extract_insights">>

\* Lines 58-91: read the job description and run the analyses.  The call
\* numbered `fail` raises (0: none does); the request is not read again.
RunAnalyses(k) ==
    /\ wk[k].pc = "analyses"
    /\ \E field \in JobFields, score \in MatchScores :
          LET jd == JobDescription(field)
              todo == Collaborators(jd)
              matched == Matching(jd)
          IN  \E fail \in 0..Len(todo) :
                 LET called == IF fail = 0 THEN todo ELSE SubSeq(todo, 1, fail)
                     gotMatch == matched /\ fail # 1
                     locals == [wk[k] EXCEPT
                                   !.request = NoRequest,
                                   !.job_description = field,
                                   !.jd_text = jd,
                                   !.calls = called,
                                   !.match_score =
                                       IF gotMatch THEN score ELSE NoScore,
                                   !.match_details =
                                       IF gotMatch THEN [match_score |-> score]
                                                   ELSE NoDetails]
                 IN  IF fail # 0
                     THEN Except(k, locals, todo[fail])
                     ELSE wk' = [wk EXCEPT
                                    ![k] = [locals EXCEPT !.pc = "insert_resume"]]
    /\ UNCHANGED <<resumes, jobs, analyses, now, reply>>

\* History of a request: the rows it has committed, in commit order.
Wrote(log, table, id) == Append(log, [table |-> table, id |-> id])

\* History of the store: a Job or AnalysisResult row records the request
\* that inserted it (by), named by the id of the Resume row that request
\* committed first.
Me(locals) == locals.wrote[1].id

\* Line 97: Resume(resume_text=resume_text).  The insert takes time: the
\* clock has advanced when the row is stored.
ResumeRow(locals, id) ==
    [id |-> id, resume_text |-> locals.resume_text, created_at |-> now + 1]

\* Mutant: the Job row is given the resume text.
JobRow_ResumeText(locals, id) ==
    [id |-> id, job_description |-> locals.resume_text,
     created_at |-> Stamp, by |-> Me(locals)]

\* Line 105: Job(job_description=jd_text)
JobRow(locals, id) ==
    [id |-> id, job_description |-> locals.jd_text,
     created_at |-> Stamp, by |-> Me(locals)]

\* Mutant: the AnalysisResult references the newest Resume row of the table
\* instead of the row this request inserted.
AnalysisRow_Newest(locals, id) ==
    [id |-> id,
     resume_id |-> Len(resumes),
     job_id |-> locals.new_job,
     match_score |-> locals.match_score,
     match_details |-> locals.match_details,
     created_at |-> Stamp, by |-> Me(locals)]

\* Lines 111-120: AnalysisResult(resume_id=new_resume.id, job_id=..., ...)
AnalysisRow(locals, id) ==
    [id |-> id,
     resume_id |-> locals.new_resume,
     job_id |-> locals.new_job,
     match_score |-> locals.match_score,
     match_details |-> locals.match_details,
     created_at |-> Stamp, by |-> Me(locals)]

\* What a commit-and-refresh pair does: the commit raises and nothing is
\* stored, the refresh raises after the row is stored, or both succeed.
Outcomes == {"commit raises", "refresh raises", "ok"}

\* Lines 97-100: insert the Resume row.
InsertResume(k) ==
    /\ Quiet
    /\ wk[k].pc = "insert_resume"
    /\ \E o \in Outcomes :
          LET row == ResumeRow(wk[k], NewId(resumes))
              locals == [wk[k] EXCEPT !.new_resume = row.id,
                                      !.wrote = Wrote(@, "Resume", row.id)]
          IN  IF o = "commit raises"
              THEN /\ Except(k, wk[k], "commit Resume")
                   /\ UNCHANGED <<resumes, now>>
              ELSE /\ resumes' = Append(resumes, row)
                   /\ now' = now + 1
                   /\ IF o = "refresh raises"
                      THEN Except(k, locals, "refresh Resume")
                      ELSE wk' = [wk EXCEPT ![k] = [locals EXCEPT !.pc =
                                     IF HasJob(wk[k].jd_text) THEN "insert_job"
                                                              ELSE "insert_analysis"]]
    /\ UNCHANGED <<jobs, analyses, reply>>

\* Lines 102-108: insert the Job row (only reached with a job description).
InsertJob(k) ==
    /\ Quiet
    /\ wk[k].pc = "insert_job"
    /\ \E o \in Outcomes :
          LET row == JobRow(wk[k], NewId(jobs))
              locals == [wk[k] EXCEPT !.new_job = row.id,
                                      !.wrote = Wrote(@, "Job", row.id)]
          IN  IF o = "commit raises"
              THEN /\ Except(k, wk[k], "commit Job")
                   /\ UNCHANGED jobs
              ELSE /\ jobs' = Append(jobs, row)
                   /\ IF o = "refresh raises"
                      THEN Except(k, locals, "refresh Job")
                      ELSE wk' = [wk EXCEPT
                                     ![k] = [locals EXCEPT !.pc = "insert_analysis"]]
    /\ UNCHANGED <<resumes, analyses, now, reply>>

\* Mutant: the response's resume_id is taken from the analysis.
Results_Mixup(locals) ==
    [ status |-> 200,
      match_score |-> locals.match_score,
      match_details |-> locals.match_details,
      analysis_id |-> locals.new_analysis,
      resume_id |-> locals.new_analysis,
      job_id |-> locals.new_job ]

\* Lines 126-130: the body of the 200 response.
Results(locals) ==
    [ status |-> 200,
      match_score |-> locals.match_score,
      match_details |-> locals.match_details,
      analysis_id |-> locals.new_analysis,
      resume_id |-> locals.new_resume,
      job_id |-> locals.new_job ]

\* Lines 111-130: insert the AnalysisResult row and answer.
InsertAnalysis(k) ==
    /\ Quiet
    /\ wk[k].pc = "insert_analysis"
    /\ \E o \in Outcomes :
          LET row == AnalysisRow(wk[k], NewId(analyses))
              locals == [wk[k] EXCEPT !.new_analysis = row.id,
                                      !.wrote = Wrote(@, "AnalysisResult", row.id)]
          IN  IF o = "commit raises"
              THEN /\ Except(k, wk[k], "commit AnalysisResult")
                   /\ UNCHANGED analyses
              ELSE /\ analyses' = Append(analyses, row)
                   /\ IF o = "refresh raises"
                      THEN Except(k, locals, "refresh AnalysisResult")
                      ELSE Return(k, locals, Results(locals))
    /\ UNCHANGED <<resumes, jobs, now, reply>>

\* -------------------------------------------------------------- get_history
Min(a, b) == IF a < b THEN a ELSE b

\* Python's s[:n]
Slice(s, n) == SubSeq(s, 1, Min(n, Len(s)))

\* .order_by(AnalysisResult.created_at.desc()): every order of the row ids
\* the store may return; rows of equal created_at come in either order.
OrderByCreatedAtDesc ==
    LET n == Len(analyses)
    IN  { p \in [1..n -> 1..n] :
            /\ \A i, j \in 1..n : i # j => p[i] # p[j]
            /\ \A i, j \in 1..n :
                  i < j => analyses[p[i]].created_at >= analyses[p[j]].created_at }

\* .limit(limit)
Limit(p, limit) == SubSeq(p, 1, Min(limit, Len(p)))

\* Mutant: a text of exactly PREVIEW_LEN characters is cut too.
ResumePreview_OffByOne(resume) ==
    IF Len(resume.resume_text) >= PREVIEW_LEN
    THEN Slice(resume.resume_text, PREVIEW_LEN) \o Ellipsis
    ELSE resume.resume_text

\* Line 163: resume_preview of one history entry (item.resume exists).
ResumePreview(resume) ==
    IF Len(resume.resume_text) > PREVIEW_LEN
    THEN Slice(resume.resume_text, PREVIEW_LEN) \o Ellipsis
    ELSE resume.resume_text

\* Line 164: jd_preview of one history entry.
JdPreview(job) ==
    IF job.id # NoId /\ Len(job.job_description) > PREVIEW_LEN
    THEN Slice(job.job_description, PREVIEW_LEN) \o Ellipsis
    ELSE IF job.id # NoId THEN job.job_description ELSE NoText

\* Lines 155-165: one entry of the history list.
HistoryEntry(item) ==
    [ id |-> item.id,
      resume_id |-> item.resume_id,
      job_id |-> item.job_id,
      match_score |-> item.match_score,
      created_at |-> item.created_at,
      resume_preview |-> ResumePreview(ResumeById(item.resume_id)),
      jd_preview |-> JdPreview(JobById(item.job_id)) ]

\* Lines 141-171: the response to GET /history?limit=L when the store
\* returns the rows in order p.  An entry without its resume raises at
\* item.resume.resume_text.
get_history(limit, p) ==
    LET rows == Limit(p, limit)
    IN  IF \E i \in 1..Len(rows) : ResumeById(analyses[rows[i]].resume_id).id = NoId
        THEN ErrorResponse(500, "'NoneType' object has no attribute 'resume_text'")
        ELSE [ status |-> 200,
               body |-> [i \in 1..Len(rows) |-> HistoryEntry(analyses[rows[i]])] ]

GetHistory ==
    /\ Quiet
    /\ \E limit \in 0..MaxLimit, p \in OrderByCreatedAtDesc :
          reply' = [op |-> "history", arg |-> limit,
                    response |-> get_history(limit, p)]
    /\ UNCHANGED <<resumes, jobs, analyses, now, wk>>

\* ---------------------------------------------------- get_resume, get_analysis
\* Ids a lookup asks for: 0 is never a row's id.
LookupIds == 0..MaxResumes

\* Mutant: the row is read before it is checked.
get_resume_Unchecked(resume_id) ==
    LET resume == ResumeById(resume_id)
    IN  IF resume.id = NoId
        THEN ErrorResponse(500, "'NoneType' object has no attribute 'id'")
        ELSE [ status |-> 200, id |-> resume.id,
               resume_text |-> resume.resume_text,
               created_at |-> resume.created_at ]

\* Lines 178-195.
get_resume(resume_id) ==
    LET resume == ResumeById(resume_id)
    IN  IF resume.id = NoId
        THEN ErrorResponse(404, "Resume not found")
        ELSE [ status |-> 200, id |-> resume.id,
               resume_text |-> resume.resume_text,
               created_at |-> resume.created_at ]

GetResume ==
    /\ Quiet
    /\ \E id \in LookupIds :
          reply' = [op |-> "resume", arg |-> id, response |-> get_resume(id)]
    /\ UNCHANGED <<resumes, jobs, analyses, now, wk>>

\* Lines 202-231.
get_analysis(analysis_id) ==
    LET item == AnalysisById(analysis_id)
        resume == ResumeById(item.resume_id)
        job == JobById(item.job_id)
    IN  IF item.id = NoId
        THEN ErrorResponse(404, "Analysis result not found")
        ELSE [ status |-> 200, id |-> item.id,
               resume_id |-> item.resume_id,
               job_id |-> item.job_id,
               match_score |-> item.match_score,
               match_details |-> item.match_details,
               created_at |-> item.created_at,
               resume_text |-> IF resume.id # NoId THEN resume.resume_text
                                                   ELSE NoText,
               job_description |-> IF job.id # NoId THEN job.job_description
                                                    ELSE NoText ]

GetAnalysis ==
    /\ Quiet
    /\ \E id \in LookupIds :
          reply' = [op |-> "analysis", arg |-> id, response |-> get_analysis(id)]
    /\ UNCHANGED <<resumes, jobs, analyses, now, wk>>

\* The client receives the response of a read.
Deliver ==
    /\ reply # NoReply
    /\ reply' = NoReply
    /\ UNCHANGED <<resumes, jobs, analyses, now, wk>>

\* The response goes to the client and the worker is free again.
Respond(k) ==
    /\ wk[k].pc = "done"
    /\ wk' = [wk EXCEPT ![k] = IdleLocals]
    /\ UNCHANGED <<resumes, jobs, analyses, now, reply>>

\* --------------------------------------------------------------- behaviour
Next ==
    \/ \E k \in Workers : AnalyzeBegin(k)
    \/ \E k \in Workers : RunAnalyses(k)
    \/ \E k \in Workers : InsertResume(k)
    \/ \E k \in Workers : InsertJob(k)
    \/ \E k \in Workers : InsertAnalysis(k)
    \/ \E k \in Workers : Respond(k)
    \/ GetHistory
    \/ GetResume
    \/ GetAnalysis
    \/ Deliver

Spec == Init /\ [][Next]_vars


\* ================================================================== claims
Tables == <<resumes, jobs, analyses>>

\* The tables a request has committed rows to, in commit order.
TablesOf(log) == [i \in 1..Len(log) |-> log[i].table]

\* The ids of the rows a request has committed to a table.
IdsOf(log, table) == {log[i].id : i \in {j \in 1..Len(log) : log[j].table = table}}

InRange(log, table) == \E i \in 1..Len(log) : log[i].table = table

\* The number of rows a request has committed to a table.
CountOf(log, table) == Cardinality({i \in 1..Len(log) : log[i].table = table})

Called(locals, name) == \E i \in 1..Len(locals.calls) : locals.calls[i] = name

\* The worker holds the response of a request that got past validation and
\* read its job description.
Analysed(k) == wk[k].pc # "idle" /\ wk[k].calls # <<>>

\* The worker holds a request whose resume text is being or has just been
\* resolved: the request is still as it was sent.
Resolving(k) == wk[k].pc \in {"analyses", "done"} /\ wk[k].calls = <<>>

\* ---- C1
\* The request carries no resume_file part and no non-empty resume_text.
NoResumeSent(request) ==
    request.file = NoFile /\ ~Truthy(request.resume_text)

\* C1: a request that carries neither a resume_file nor a non-empty
\* resume_text field is answered 400 "No resume provided" in the step that
\* takes it, and that step leaves the three tables as they were.
C1_NoResumeIsInputError ==
    [][ \A k \in Workers :
          (wk[k].pc = "idle" /\ wk'[k].pc # "idle"
             /\ NoResumeSent(wk'[k].request))
          => /\ wk'[k].pc = "done"
             /\ wk'[k].response = [status |-> 400, error |-> "No resume provided"]
             /\ wk'[k].wrote = <<>>
             /\ Tables' = Tables ]_vars

C1_Witness ==
    \E k \in Workers :
       /\ wk[k].pc = "done"
       /\ Resolving(k)
       /\ NoResumeSent(wk[k].request)
       /\ wk[k].request.resume_text = <<>>
       /\ wk[k].response.status = 400
       /\ Len(resumes) > 0

\* ---- C2
\* C2: a request answered 200 has committed exactly one Resume row and
\* exactly one AnalysisResult row; that AnalysisResult's resume_id and the
\* response's resume_id are the id of that Resume row.
C2_OneResumeOneAnalysis ==
    \A k \in Workers :
       (wk[k].pc = "done" /\ wk[k].response.status = 200)
       => /\ CountOf(wk[k].wrote, "Resume") = 1
          /\ CountOf(wk[k].wrote, "AnalysisResult") = 1
          /\ \A r \in IdsOf(wk[k].wrote, "Resume") :
             \A a \in IdsOf(wk[k].wrote, "AnalysisResult") :
                /\ r \in 1..Len(resumes) /\ resumes[r].id = r
                /\ a \in 1..Len(analyses) /\ analyses[a].id = a
                /\ analyses[a].resume_id = r
                /\ wk[k].response.resume_id = r
                /\ wk[k].response.analysis_id = a

C2_Witness ==
    \E k \in Workers :
       /\ wk[k].pc = "done" /\ wk[k].response.status = 200
       /\ wk[k].response.resume_id = 2
       /\ wk[k].response.analysis_id = 1

\* ---- C3
\* C3: a request whose resume text resolved and whose job description is
\* absent or empty never invokes the match collaborator and never commits
\* a Job row; when it is answered 200 the response's match_score and
\* match_details are null, and the AnalysisResult it stored has a null
\* job_id.
C3_NoJobDescription ==
    \A k \in Workers :
       (Analysed(k) /\ wk[k].job_description \in {NoText, <<>>})
       => /\ ~Called(wk[k], "compute_match_score")
          /\ ~InRange(wk[k].wrote, "Job")
          /\ (wk[k].pc = "done" /\ wk[k].response.status = 200)
             => /\ wk[k].response.match_score = NoScore
                /\ wk[k].response.match_details = NoDetails
                /\ wk[k].response.job_id = NoId
                /\ \A a \in IdsOf(wk[k].wrote, "AnalysisResult") :
                      /\ analyses[a].job_id = NoId
                      /\ analyses[a].match_score = NoScore
                      /\ analyses[a].match_details = NoDetails

C3_Witness ==
    \E k \in Workers :
       /\ Analysed(k) /\ wk[k].job_description = <<>>
       /\ wk[k].pc = "done" /\ wk[k].response.status = 200
       /\ Len(jobs) > 0

\* ---- C4
\* C4: a request answered 200 whose job description is present has
\* committed exactly one Job row; the row holds that job description, and
\* its id is the response's job_id and the job_id of the AnalysisResult
\* the request stored.
C4_JobRowMatches ==
    \A k \in Workers :
       (wk[k].pc = "done" /\ wk[k].response.status = 200
          /\ Truthy(wk[k].job_description))
       => /\ CountOf(wk[k].wrote, "Job") = 1
          /\ \A j \in IdsOf(wk[k].wrote, "Job") :
                /\ j \in 1..Len(jobs) /\ jobs[j].id = j
                /\ jobs[j].job_description = wk[k].job_description
                /\ wk[k].response.job_id = j
                /\ \A a \in IdsOf(wk[k].wrote, "AnalysisResult") :
                      analyses[a].job_id = j

C4_Witness ==
    \E k \in Workers :
       /\ wk[k].pc = "done" /\ wk[k].response.status = 200
       /\ Truthy(wk[k].job_description)
       /\ wk[k].response.job_id = 2
       /\ wk[k].response.resume_id = 1

\* ---- C5
\* C5: a lookup of a resume id that no Resume row has, or of an analysis
\* id that no AnalysisResult row has, is answered 404 with the not-found
\* error, whatever the store holds.
C5_MissingIdIs404 ==
    /\ (reply.op = "resume"
          /\ ~\E i \in 1..Len(resumes) : resumes[i].id = reply.arg)
       => reply.response = [status |-> 404, error |-> "Resume not found"]
    /\ (reply.op = "analysis"
          /\ ~\E i \in 1..Len(analyses) : analyses[i].id = reply.arg)
       => reply.response = [status |-> 404, error |-> "Analysis result not found"]

C5_Witness ==
    /\ reply.op = "resume"
    /\ reply.arg = 2
    /\ Len(resumes) = 1
    /\ reply.response.status = 404

\* ---- C6
\* The preview of a source text: the first 200 characters and "..." when
\* the text is longer than 200 characters, the text itself otherwise.
IsPreviewOf(p, t) ==
    IF Len(t) > 200
    THEN /\ Len(p) = 203
         /\ \A i \in 1..200 : p[i] = t[i]
         /\ \A i \in 201..203 : p[i] = "."
    ELSE p = t

\* C6: the history list for limit L holds min(L, number of AnalysisResult
\* rows) entries, each a different stored row, in descending order of
\* created_at, and no row left out was created later than a row listed;
\* each entry's resume preview and job preview is the preview of the text
\* of the row's resume and job (null when the row has no job).
C6_HistoryIsRecentFirst ==
    reply.op = "history"
    => LET body == reply.response.body
           n == Len(body)
       IN  /\ reply.response.status = 200
           /\ n <= reply.arg
           /\ n = Min(reply.arg, Len(analyses))
           /\ \A i \in 1..n :
                 /\ body[i].id \in 1..Len(analyses)
                 /\ body[i].resume_id = analyses[body[i].id].resume_id
                 /\ body[i].job_id = analyses[body[i].id].job_id
                 /\ body[i].created_at = analyses[body[i].id].created_at
                 /\ IsPreviewOf(body[i].resume_preview,
                                resumes[body[i].resume_id].resume_text)
                 /\ IF body[i].job_id = NoId
                    THEN body[i].jd_preview = NoText
                    ELSE IsPreviewOf(body[i].jd_preview,
                                     jobs[body[i].job_id].job_description)
           /\ \A i, j \in 1..n :
                 i < j => /\ body[i].id # body[j].id
                          /\ body[i].created_at >= body[j].created_at
           /\ \A a \in 1..Len(analyses) :
                 (\A i \in 1..n : body[i].id # a)
                 => \A i \in 1..n : analyses[a].created_at <= body[i].created_at

\* GET /history?limit=1 after two analyses made one after the other, with
\* texts on both sides of the preview length: the later one is returned.
C6_Witness ==
    /\ reply.op = "history"
    /\ reply.arg = 1
    /\ Len(analyses) = 2
    /\ analyses[1].created_at < analyses[2].created_at
    /\ Len(reply.response.body) = 1
    /\ reply.response.body[1].id = 2
    /\ Len(reply.response.body[1].resume_preview) = 200
    /\ Len(reply.response.body[1].jd_preview) = 203

\* ---- C7
\* The filenames of the input alphabet whose extension is an allowed one.
AllowedUploads == { <<"c", "v", ".", "P", "D", "F">> }

\* C7: with a file of an allowed extension attached the extractor is
\* invoked; its text, when usable, is the resume text, and when it returns
\* no usable text the request is answered 400 and has written no row,
\* whatever the resume_text field holds.  With no file, or a file of
\* another extension, the extractor is not invoked and the resume text is
\* the resume_text field (400 when that is absent or empty).
C7_ResumeTextResolution ==
    \A k \in Workers :
       Resolving(k)
       => LET req == wk[k].request
          IN  IF req.file \in AllowedUploads
              THEN /\ req.extracted # NotCalled
                   /\ Truthy(req.extracted) /\ req.extracted # Raised
                      => /\ wk[k].pc = "analyses"
                         /\ wk[k].resume_text = req.extracted
                   /\ req.extracted \in {NoText, <<>>}
                      => /\ wk[k].pc = "done"
                         /\ wk[k].response.status = 400
                         /\ wk[k].wrote = <<>>
              ELSE /\ req.extracted = NotCalled
                   /\ Truthy(req.resume_text)
                      => /\ wk[k].pc = "analyses"
                         /\ wk[k].resume_text = req.resume_text
                   /\ ~Truthy(req.resume_text)
                      => /\ wk[k].pc = "done"
                         /\ wk[k].response.status = 400
                         /\ wk[k].wrote = <<>>

\* An allowed file whose extraction gave nothing, sent with a resume_text.
C7_Witness ==
    \E k \in Workers :
       /\ Resolving(k)
       /\ wk[k].request.file \in AllowedUploads
       /\ wk[k].request.extracted = <<>>
       /\ Truthy(wk[k].request.resume_text)
       /\ wk[k].response.status = 400

\* ---- C8
\* The request of worker k is over, it committed its Resume row and no
\* AnalysisResult row.
FailedPartWay(k) ==
    /\ wk[k].pc = "done"
    /\ InRange(wk[k].wrote, "Resume")
    /\ ~InRange(wk[k].wrote, "AnalysisResult")

\* The messages of the failures that can follow the commits in `log`.
FailuresAfter(log, withJob) ==
    IF InRange(log, "Job")
    THEN {"refresh Job", "commit AnalysisResult"}
    ELSE {"refresh Resume"}
         \cup (IF withJob THEN {"commit Job"} ELSE {"commit AnalysisResult"})

\* No request is working on Resume row id, and no AnalysisResult references it.
Orphan(id) ==
    /\ id \in 1..Len(resumes)
    /\ \A k \in Workers : id \notin IdsOf(wk[k].wrote, "Resume")
    /\ \A a \in 1..Len(analyses) : analyses[a].resume_id # id

\* C8: a request that fails after its Resume row is committed and before
\* its AnalysisResult row is committed is answered 500 with the message of
\* that failure; the Resume row, and the Job row if committed, are in the
\* store and no AnalysisResult references the Resume row; and the rows of
\* a request that is over stay as they are, unreferenced.
C8_PartialWritesStay ==
    [][ /\ \A k \in Workers :
             FailedPartWay(k)'
             => /\ wk'[k].response.status = 500
                /\ wk'[k].response.error
                      \in FailuresAfter(wk'[k].wrote, Truthy(wk'[k].jd_text))
                /\ \A r \in IdsOf(wk'[k].wrote, "Resume") :
                      /\ r \in 1..Len(resumes') /\ resumes'[r].id = r
                      /\ \A a \in 1..Len(analyses') : analyses'[a].resume_id # r
                /\ \A j \in IdsOf(wk'[k].wrote, "Job") :
                      j \in 1..Len(jobs') /\ jobs'[j].id = j
        /\ \A id \in 1..Len(resumes) :
             Orphan(id) => /\ Orphan(id)'
                           /\ resumes'[id] = resumes[id]
        /\ \A j \in 1..Len(jobs) :
             j \in 1..Len(jobs') /\ jobs'[j] = jobs[j] ]_vars

\* A request failed while inserting its AnalysisResult, after its Resume
\* and Job rows were committed, while another request's analysis is stored.
C8_Witness ==
    \E k \in Workers :
       /\ FailedPartWay(k)
       /\ InRange(wk[k].wrote, "Job")
       /\ wk[k].response.error = "commit AnalysisResult"
       /\ Len(analyses) > 0

\* ---- C9
\* The orders in which a request commits its rows.
CommitOrders(withJob) ==
    IF withJob
    THEN { <<>>, <<"Resume">>, <<"Resume", "Job">>,
           <<"Resume", "Job", "AnalysisResult">> }
    ELSE { <<>>, <<"Resume">>, <<"Resume", "AnalysisResult">> }

\* C9: every AnalysisResult row references a committed Resume row, the
\* one its own request inserted, and its job_id is null or the id of a
\* committed Job row its own request inserted; every request commits its
\* rows in the order Resume, Job (only with a job description),
\* AnalysisResult.
C9_ReferencesOwnRows ==
    /\ \A a \in 1..Len(analyses) :
          /\ analyses[a].resume_id \in 1..Len(resumes)
          /\ resumes[analyses[a].resume_id].id = analyses[a].resume_id
          /\ analyses[a].resume_id = analyses[a].by
          /\ \/ analyses[a].job_id = NoId
             \/ /\ analyses[a].job_id \in 1..Len(jobs)
                /\ jobs[analyses[a].job_id].id = analyses[a].job_id
                /\ jobs[analyses[a].job_id].by = analyses[a].by
    /\ \A k \in Workers :
          TablesOf(wk[k].wrote) \in CommitOrders(Truthy(wk[k].job_description))

\* Two requests interleaved: the first to insert its Resume is the last to
\* insert its AnalysisResult.
C9_Witness ==
    /\ Len(analyses) = 2
    /\ analyses[1].resume_id = 2
    /\ analyses[2].resume_id = 1
    /\ analyses[2].job_id = 1
    /\ analyses[1].job_id = NoId

\* ---- C10
\* The collaborator calls of a request, all of them.
AllCalls(withJob) ==
    (IF withJob THEN <<"compute_match_score">> ELSE <<>>)
    \o <<"check_compliance", "find_weak_verbs", "get_power_verb_stats",
         "score_resume", "extract_insights">>

\* The request of worker k ended because a collaborator raised.
CollaboratorRaised(k) ==
    /\ wk[k].pc = "done"
    /\ wk[k].calls # <<>>
    /\ wk[k].wrote = <<>>
    /\ wk[k].response.status = 500
    /\ wk[k].response.error = wk[k].calls[Len(wk[k].calls)]

\* C10: a request that is at or past its first insert has made every
\* collaborator call; a request that ended before making them all, or
\* with the exception of a collaborator, is answered 500 and has written
\* no row; a request that ended with rows written and no AnalysisResult
\* ended with the failure of a commit or refresh.
C10_AnalysesBeforeInserts ==
    \A k \in Workers :
       /\ (wk[k].pc \in {"insert_resume", "insert_job", "insert_analysis"}
             \/ wk[k].wrote # <<>>)
          => wk[k].calls = AllCalls(Truthy(wk[k].job_description))
       /\ (Analysed(k) /\ wk[k].pc = "done"
             /\ wk[k].calls # AllCalls(Truthy(wk[k].job_description)))
          => /\ wk[k].response.status = 500
             /\ wk[k].response.error = wk[k].calls[Len(wk[k].calls)]
             /\ wk[k].wrote = <<>>
       /\ (Analysed(k) /\ wk[k].pc = "done"
             /\ wk[k].response.status = 500
             /\ Called(wk[k], wk[k].response.error))
          => wk[k].wrote = <<>>
       /\ FailedPartWay(k)
          => /\ wk[k].response.status = 500
             /\ wk[k].response.error
                \in {"refresh Resume", "commit Job", "refresh Job",
                     "commit AnalysisResult"}

\* The last collaborator raised while the store already holds rows of
\* another request.
C10_Witness ==
    \E k \in Workers :
       /\ CollaboratorRaised(k)
       /\ wk[k].response.error = "extract_insights"
       /\ Len(wk[k].calls) = 6
       /\ Len(resumes) > 0

=============================================================================
